---------------------------- MODULE Spec2Model ----------------------------
(***************************************************************************)
(* A model of landez/reader.py: the tile sources MBTilesReader,            *)
(* TileDownloader and WMSReader.                                           *)
(*                                                                         *)
(* One behaviour is the life of one reader object: Init is the state after *)
(* its constructor, and every action is one call of a method (or, for the  *)
(* download retry loop, one pass of its while loop).  The archive file,    *)
(* the remote servers and the output file are the environment: the archive *)
(* is fixed at Init, a transfer's result is drawn with \E at each attempt. *)
(***************************************************************************)
EXTENDS Integers, Sequences, FiniteSets, TLC

VARIABLES
    reader,            \* class of the reader object of this behaviour
    tilesize,          \* Reader.tilesize
    store,             \* what the file behind MBTilesReader.filename is
    tiles,             \* table tiles: set of rows
    grids,             \* table grids: set of rows
    grid_data,         \* table grid_data: sequence of rows, in scan order
    con,               \* MBTilesReader._con is set
    tiles_url,         \* TileDownloader.tiles_url: sequence of replacement fields
    DOWNLOAD_RETRIES,  \* landez.DOWNLOAD_RETRIES
    call,              \* the method call in progress or last finished
    pc,                \* "idle" between calls, "retry" inside the download loop
    r,                 \* local r of TileDownloader.tile
    attempts,          \* number of image.retrieve calls made by the current call
    url,               \* local url of TileDownloader.tile
    sink,              \* content of the output file of the call
    outcome,           \* "none" while running, "ok", or the exception raised
    ret                \* value returned, or the argument of the exception

vars == << reader, tilesize, store, tiles, grids, grid_data, con, tiles_url,
           DOWNLOAD_RETRIES, call, pc, r, attempts, url, sink,
           outcome, ret >>

archive == << store, tiles, grids, grid_data >>
config  == << reader, tilesize, tiles_url, DOWNLOAD_RETRIES >>

-----------------------------------------------------------------------------
(* Bounds of the model *)

MaxTiles    == 3    \* rows of table tiles in an archive
MaxGridRows == 2    \* rows of table grid_data in an archive
MaxFields   == 2    \* replacement fields in a URL template
MaxRetries  == 3    \* largest retry budget
TileLen     == 2    \* bytes of a tile served by a remote source

ZoomLevels  == {0, 1, 2}

(* Program constants *)

\* from . import DEFAULT_TILE_SIZE: the value set in the package
DEFAULT_TILE_SIZE == 256

-----------------------------------------------------------------------------
(* Values *)

RECURSIVE Pow2(_)
Pow2(n) == IF n = 0 THEN 1 ELSE 2 * Pow2(n - 1)

None == [none |-> TRUE]

\* A tile address (z, x, y), rows counted in either convention.
AddressesAt(z) == { [z |-> z, x |-> x, y |-> y] :
                      x \in 0 .. Pow2(z) - 1, y \in 0 .. Pow2(z) - 1 }

Addresses == UNION { AddressesAt(z) : z \in ZoomLevels }

\* Subsets of S with at most k elements.
RECURSIVE UpTo(_, _)
UpTo(S, k) ==
    IF k = 0 THEN { {} }
    ELSE LET P == UpTo(S, k - 1)
         IN  P \cup { p \cup {e} : p \in P, e \in S }

\* Sequences over S of length at most k.
RECURSIVE SeqUpTo(_, _)
SeqUpTo(S, k) ==
    IF k = 0 THEN { << >> }
    ELSE LET P == SeqUpTo(S, k - 1)
         IN  P \cup { Append(p, e) : p \in P, e \in S }

\* The bytes stored for the tile of an address: distinct addresses hold
\* distinct images.
TileBytes(c) == << c.z, c.x, c.y >>

TileRow(c) == [ zoom_level |-> c.z, tile_column |-> c.x, tile_row |-> c.y,
                tile_data |-> TileBytes(c) ]

\* What the output file named by a call holds when the call starts.
PriorBytes == << -1 >>

-----------------------------------------------------------------------------
(* Python pieces the methods rely on *)

\* format % args with args a tuple: every conversion of the format takes one
\* element of the tuple, and a count that differs raises TypeError.
PercentOk(conversions, nargs) == conversions = nargs

\* A JSON text is a serialisation of a value; several texts (here: with or
\* without extra white space) are serialisations of the same value.
JsonText(v, ws) == [ text_of |-> v, ws |-> ws ]
json_loads(t) == t.text_of
json_dumps(v) == JsonText(v, 0)

\* zlib: the blob stored in grids.grid is the compressed JSON text.
zlib_compress(t) == [ deflated |-> t ]
zlib_decompress(b) == b.deflated

\* A dict with string keys.
EmptyDict == [ k \in {} |-> None ]
DictPut(d, k, v) == [ j \in DOMAIN d \cup {k} |-> IF j = k THEN v ELSE d[j] ]

-----------------------------------------------------------------------------
(* MBTilesReader *)

\* The requested row used as it is.
y_unconverted(z, y) == y

\* y_mercator = (2**int(z) - 1) - int(y)
y_mercator(z, y) == (Pow2(z) - 1) - y

\* _query: what the call raises, given whether the connection is set.
\* sqlite3.connect is outside the try block; it raises OperationalError when
\* the file cannot be opened. A file that opens but is no archive makes
\* execute raise OperationalError or DatabaseError, which the except clause
\* turns into InvalidFormatError.
QueryRaises(connected) ==
    IF ~connected /\ store = "unopenable" THEN "OperationalError"
    ELSE IF store # "valid" THEN "InvalidFormatError"
    ELSE "ok"

\* _query: whether self._con is set afterwards.
QueryConnects(connected) == connected \/ store # "unopenable"

\* The result of a method: what it raised ("ok" if it returned), the value
\* returned, the connection flag and the output file afterwards (PriorBytes
\* when the method did not open it).
Result(exc, value, connected, out) ==
    [ exc |-> exc, value |-> value, con |-> connected, sink |-> out ]

\* metadata(): dict(rows), a later row of the same name replacing an earlier.
MetadataRows == << [name |-> "name", value |-> "a"],
                   [name |-> "format", value |-> "png"],
                   [name |-> "name", value |-> "b"] >>

RECURSIVE DictOfRows(_, _)
DictOfRows(rows, d) ==
    IF rows = << >> THEN d
    ELSE DictOfRows(Tail(rows), DictPut(d, Head(rows).name, Head(rows).value))

metadata ==
    LET q == QueryRaises(con)
    IN  IF q # "ok" THEN Result(q, None, QueryConnects(con), PriorBytes)
        ELSE Result("ok", DictOfRows(MetadataRows, EmptyDict), TRUE, PriorBytes)

\* Ascending sequence of a finite set of integers.
RECURSIVE Ascending(_)
Ascending(S) ==
    IF S = {} THEN << >>
    ELSE LET m == CHOOSE a \in S : \A b \in S : a <= b
         IN  << m >> \o Ascending(S \ {m})

zoomlevels ==
    LET q == QueryRaises(con)
    IN  IF q # "ok" THEN Result(q, None, QueryConnects(con), PriorBytes)
        ELSE Result("ok", Ascending({ t.zoom_level : t \in tiles }), TRUE, PriorBytes)

\* logger.debug(_("Extract tile %s") % (z, x, y)): one conversion, a tuple
\* of three.
TileLogOk == PercentOk(1, 3)

\* SELECT tile_data FROM tiles WHERE zoom_level=? AND tile_column=? AND tile_row=?
SelectTile(z, x, row) ==
    { t \in tiles : t.zoom_level = z /\ t.tile_column = x /\ t.tile_row = row }

tile(z, x, y) ==
    IF ~TileLogOk THEN Result("TypeError", None, con, PriorBytes)
    ELSE LET q == QueryRaises(con)
             hit == SelectTile(z, x, y_mercator(z, y))
         IN  IF q # "ok" THEN Result(q, None, QueryConnects(con), PriorBytes)
             ELSE IF hit = {} THEN Result("ExtractionError", None, TRUE, PriorBytes)
             ELSE Result("ok", None, TRUE, (CHOOSE t \in hit : TRUE).tile_data)

\* SELECT grid FROM grids WHERE zoom_level=? AND tile_column=? AND tile_row=?
SelectGrid(z, x, row) ==
    { g \in grids : g.zoom_level = z /\ g.tile_column = x /\ g.tile_row = row }

\* The rows of grid_data of every row of the column.
SelectGridDataOfColumn(z, x, row) ==
    SelectSeq(grid_data, LAMBDA d : d.zoom_level = z /\ d.tile_column = x)

\* SELECT key_name, key_json FROM grid_data WHERE zoom_level=? AND
\* tile_column=? AND tile_row=?, in the order the store scans them.
SelectGridData(z, x, row) ==
    SelectSeq(grid_data, LAMBDA d : d.zoom_level = z /\ d.tile_column = x
                                    /\ d.tile_row = row)

\* The while loop of grid(): grid_json['data'][key_name] = json.loads(key_json)
\* for each fetched row in turn.
RECURSIVE JoinGridData(_, _)
JoinGridData(rows, data) ==
    IF rows = << >> THEN data
    ELSE JoinGridData(Tail(rows),
                      DictPut(data, Head(rows).key_name,
                              json_loads(Head(rows).key_json)))

\* if not callback: callback = 'grid'
CallbackOrDefault(callback) == IF callback = "" THEN "grid" ELSE callback

grid(z, x, y, callback) ==
    LET q   == QueryRaises(con)
        row == y_mercator(z, y)
        hit == SelectGrid(z, x, row)
    IN  IF q # "ok" THEN Result(q, None, QueryConnects(con), PriorBytes)
        ELSE IF hit = {} THEN Result("ExtractionError", None, TRUE, PriorBytes)
        ELSE LET t         == CHOOSE g \in hit : TRUE
                 grid_json == json_loads(zlib_decompress(t.grid))
                 joined    == DictPut(grid_json, "data",
                                  JoinGridData(SelectGridData(z, x, row),
                                               EmptyDict))
             IN  Result("ok",
                        [ callback |-> CallbackOrDefault(callback),
                          json |-> json_dumps(joined) ],
                        TRUE, PriorBytes)

\* ORDER BY tile_column, tile_row
PairBefore(a, b) == a[1] < b[1] \/ (a[1] = b[1] /\ a[2] <= b[2])

RECURSIVE OrderedPairs(_)
OrderedPairs(S) ==
    IF S = {} THEN << >>
    ELSE LET m == CHOOSE a \in S : \A b \in S : PairBefore(a, b)
         IN  << m >> \o OrderedPairs(S \ {m})

\* SELECT tile_column, tile_row FROM tiles WHERE zoom_level=?
\* ORDER BY tile_column, tile_row
SelectCoverage(zoom) ==
    OrderedPairs({ << t.tile_column, t.tile_row >> :
                     t \in { u \in tiles : u.zoom_level = zoom } })

\* rows.fetchone() on the i-th fetch: the next row, or NoRow for None.
NoRow == << >>
Fetch(rows, i) == IF i <= Len(rows) THEN rows[i] ELSE NoRow

\* Adjacent only when the column is the same.
AdjacentSameColumn(t, previous) == t # NoRow /\ t[1] - previous[1] < 1

\* while t and t[0] - previous[0] <= 1
Adjacent(t, previous) == t # NoRow /\ t[1] - previous[1] <= 1

\* The while loop of find_coverage, t being the i-th fetched row: the value
\* of previous when the loop ends.
RECURSIVE ScanAdjacent(_, _, _)
ScanAdjacent(rows, i, previous) ==
    LET t == Fetch(rows, i)
    IN  IF Adjacent(t, previous) THEN ScanAdjacent(rows, i + 1, t)
        ELSE previous

\* proj.unproject_pixels(px, zoom) of the projection library: a (lon, lat)
\* pair, kept symbolic.
unproject_pixels(px, zoom) ==
    << [ lon_of |-> px, zoom |-> zoom ], [ lat_of |-> px, zoom |-> zoom ] >>

find_coverage(zoom) ==
    LET q    == QueryRaises(con)
        rows == SelectCoverage(zoom)
        t    == Fetch(rows, 1)
    IN  IF q # "ok" THEN Result(q, None, QueryConnects(con), PriorBytes)
        \* xmin, ymin = t with t = None
        ELSE IF t = NoRow THEN Result("TypeError", None, TRUE, PriorBytes)
        ELSE LET xmin == t[1]
                 ymin == t[2]
                 previous == ScanAdjacent(rows, 1, t)
                 xmax == previous[1]
                 ymax == previous[2]
                 S == tilesize
                 bottomleft == << xmin * S, (ymax + 1) * S >>
                 topright == << (xmax + 1) * S, ymin * S >>
             IN  Result("ok",
                        [ extent |-> << xmin, ymin, xmax, ymax >>,
                          bottomleft |-> bottomleft,
                          topright |-> topright,
                          box |-> unproject_pixels(bottomleft, zoom)
                                  \o unproject_pixels(topright, zoom) ],
                        TRUE, PriorBytes)

-----------------------------------------------------------------------------
(* The state after construction *)

\* Reader.__init__: if not tilesize: tilesize = DEFAULT_TILE_SIZE
ReaderInit(arg) == IF arg = 0 THEN DEFAULT_TILE_SIZE ELSE arg

TileSizeArgs == {0, 512}

Call(op, z, x, y, callback) ==
    [ op |-> op, z |-> z, x |-> x, y |-> y, callback |-> callback ]

NoCall == Call("none", 0, 0, 0, "")

\* No call made yet.
InitCall ==
    /\ call = NoCall
    /\ pc = "idle"
    /\ r = 0
    /\ attempts = 0
    /\ url = << >>
    /\ sink = PriorBytes
    /\ outcome = "none"
    /\ ret = None

\* MBTilesReader.__init__: _con = None, the file is not touched.
MBTilesReaderInit(sizes) ==
    /\ reader = "MBTilesReader"
    /\ tilesize \in { ReaderInit(a) : a \in sizes }
    /\ con = FALSE
    /\ tiles_url = << >>
    /\ DOWNLOAD_RETRIES = 1
    /\ InitCall

\* Archives that hold tiles only.
TileTables == { { TileRow(c) : c \in A } : A \in UpTo(Addresses, MaxTiles) }

\* Archives that hold grids: the two stored rows of column 0 at zoom 1.
GridAddresses == { c \in AddressesAt(1) : c.x = 0 }
Keys == { "a", "b" }
Fragments == { JsonText(1, 1), JsonText(2, 0) }

\* A grids row: the UTFGrid header, with no data member or with a stale one.
Headers == { [ grid |-> "g" ],
             [ grid |-> "g", data |-> [ k \in {"stale"} |-> 0 ] ] }

GridRow(c, h) == [ zoom_level |-> c.z, tile_column |-> c.x, tile_row |-> c.y,
                   grid |-> zlib_compress(JsonText(h, 0)) ]

GridTables ==
    { { GridRow(c, f[c]) : c \in A } :
        f \in [ GridAddresses -> Headers ], A \in SUBSET GridAddresses }

GridDataRows ==
    { [ zoom_level |-> c.z, tile_column |-> c.x, tile_row |-> c.y,
        key_name |-> k, key_json |-> j ] :
        c \in GridAddresses, k \in Keys, j \in Fragments }

InitTileArchive ==
    /\ MBTilesReaderInit(TileSizeArgs)
    /\ store = "valid"
    /\ tiles \in TileTables
    /\ grids = {}
    /\ grid_data = << >>

InitGridArchive ==
    /\ MBTilesReaderInit({0})
    /\ store = "valid"
    /\ tiles = {}
    /\ grids \in GridTables
    /\ grid_data \in SeqUpTo(GridDataRows, MaxGridRows)

\* A file that cannot be opened, or that opens and is no archive.
InitBadArchive ==
    /\ MBTilesReaderInit({0})
    /\ store \in { "unopenable", "foreign" }
    /\ tiles = {}
    /\ grids = {}
    /\ grid_data = << >>

-----------------------------------------------------------------------------
(* Calls of the MBTilesReader methods: each runs to its end in one step *)

Do(c, res) ==
    /\ pc = "idle"
    /\ call' = c
    /\ outcome' = res.exc
    /\ ret' = res.value
    /\ con' = res.con
    /\ sink' = res.sink
    /\ UNCHANGED << archive, config, pc, r, attempts, url >>

Metadata ==
    /\ reader = "MBTilesReader"
    /\ Do(Call("metadata", 0, 0, 0, ""), metadata)

ZoomLevelsCall ==
    /\ reader = "MBTilesReader"
    /\ Do(Call("zoomlevels", 0, 0, 0, ""), zoomlevels)

MBTile ==
    /\ reader = "MBTilesReader"
    /\ \E c \in Addresses :
         Do(Call("tile", c.z, c.x, c.y, ""), tile(c.z, c.x, c.y))

Grid ==
    /\ reader = "MBTilesReader"
    /\ \E c \in Addresses, cb \in { "", "cb" } :
         Do(Call("grid", c.z, c.x, c.y, cb), grid(c.z, c.x, c.y, cb))

FindCoverage ==
    /\ reader = "MBTilesReader"
    /\ \E zoom \in ZoomLevels :
         Do(Call("find_coverage", zoom, 0, 0, ""), find_coverage(zoom))

InitCoverage == InitTileArchive \/ InitBadArchive
NextCoverage == FindCoverage
SpecCoverage == InitCoverage /\ [][NextCoverage]_vars

InitGrid == InitGridArchive \/ InitBadArchive
NextGrid == Grid
SpecGrid == InitGrid /\ [][NextGrid]_vars

-----------------------------------------------------------------------------
(* TileDownloader *)

\* A URL template is the sequence of its replacement fields; "" is a field
\* without a name ({} or {0}).
FieldNames == { "z", "x", "y", "s", "size", "output", "self", "foo", "" }

Templates == SeqUpTo(FieldNames, MaxFields)

tiles_subdomains == << "a", "b" >>

\* s = self.tiles_subdomains[(x + y) % len(self.tiles_subdomains)]
Subdomain(x, y) == tiles_subdomains[((x + y) % Len(tiles_subdomains)) + 1]

\* locals() where tiles_url.format is called.
Locals(z, x, y) ==
    [ self |-> "TileDownloader object", z |-> z, x |-> x, y |-> y,
      output |-> "output", size |-> tilesize, s |-> Subdomain(x, y) ]

\* self.tiles_url.format(**locals()): the fields are replaced left to right;
\* a field without a name indexes the empty positional arguments and raises
\* IndexError, a name that is no key of env raises KeyError.
RECURSIVE Format(_, _, _)
Format(template, env, done) ==
    IF template = << >> THEN [ exc |-> "ok", key |-> "", url |-> done ]
    ELSE LET f == Head(template)
         IN  IF f = "" THEN [ exc |-> "IndexError", key |-> f, url |-> << >> ]
             ELSE IF f \notin DOMAIN env
                  THEN [ exc |-> "KeyError", key |-> f, url |-> << >> ]
             ELSE Format(Tail(template), env,
                         Append(done, [ field |-> f, value |-> env[f] ]))

\* The bytes the remote source serves for an address.
RemoteTile(c) == [ i \in 1 .. TileLen |-> c.x + c.y + i ]

\* Addresses asked of the remote sources.
RemoteAddresses == AddressesAt(0) \cup AddressesAt(1)

\* One pass more: while r >= 0
RetryGuardInclusive(left) == left >= 0

\* while r > 0
RetryGuard(left) == left > 0

TileDownloaderInit ==
    /\ reader = "TileDownloader"
    /\ tilesize = ReaderInit(0)
    /\ tiles_url \in Templates
    /\ DOWNLOAD_RETRIES \in 1 .. MaxRetries
    /\ store = "none"
    /\ tiles = {}
    /\ grids = {}
    /\ grid_data = << >>
    /\ con = FALSE
    /\ InitCall

\* tile(): from the entry to the while loop.
DownloadBegin ==
    /\ reader = "TileDownloader"
    /\ pc = "idle"
    /\ \E c \in RemoteAddresses :
         LET f == Format(tiles_url, Locals(c.z, c.x, c.y), << >>)
         IN  /\ call' = Call("tile", c.z, c.x, c.y, "")
             /\ sink' = PriorBytes
             /\ attempts' = 0
             /\ IF f.exc = "KeyError"
                THEN /\ outcome' = "DownloadError"
                     /\ ret' = [ message |-> "Unknown keyword", key |-> f.key ]
                     /\ UNCHANGED << pc, r, url >>
                ELSE IF f.exc # "ok"
                THEN /\ outcome' = f.exc
                     /\ ret' = None
                     /\ UNCHANGED << pc, r, url >>
                ELSE /\ outcome' = "none"
                     /\ ret' = None
                     /\ url' = f.url
                     /\ r' = DOWNLOAD_RETRIES
                     /\ pc' = "retry"
    /\ UNCHANGED << archive, config, con >>

\* image.retrieve(url, output) returns: the file holds the whole tile.
RetrieveDone ==
    /\ pc = "retry"
    /\ RetryGuard(r)
    /\ attempts' = attempts + 1
    /\ sink' = RemoteTile(call)
    /\ outcome' = "ok"
    /\ pc' = "idle"
    /\ UNCHANGED << archive, config, con, call, r, url, ret >>

\* image.retrieve(url, output) raises IOError before it opens the output
\* file (no connection, HTTP error).
RetrieveRefused ==
    /\ pc = "retry"
    /\ RetryGuard(r)
    /\ attempts' = attempts + 1
    /\ r' = r - 1
    /\ UNCHANGED << archive, config, con, call, pc, url, sink, outcome, ret >>

\* image.retrieve(url, output) raises IOError after it opened the output
\* file for writing (the transfer breaks, or ends short of Content-Length):
\* the file holds the part that was received.
RetrieveInterrupted ==
    /\ pc = "retry"
    /\ RetryGuard(r)
    /\ attempts' = attempts + 1
    /\ r' = r - 1
    /\ \E k \in 0 .. TileLen - 1 : sink' = SubSeq(RemoteTile(call), 1, k)
    /\ UNCHANGED << archive, config, con, call, pc, url, outcome, ret >>

\* The loop ends with r = 0: raise DownloadError
RetriesExhausted ==
    /\ pc = "retry"
    /\ ~RetryGuard(r)
    /\ outcome' = "DownloadError"
    /\ pc' = "idle"
    /\ UNCHANGED << archive, config, con, call, r, attempts, url, sink, ret >>

NextDownload ==
    \/ DownloadBegin
    \/ RetrieveDone
    \/ RetrieveRefused
    \/ RetrieveInterrupted
    \/ RetriesExhausted

\* Every call of image.retrieve returns or raises, and the loop goes on.
SpecDownload ==
    TileDownloaderInit /\ [][NextDownload]_vars /\ WF_vars(NextDownload)

-----------------------------------------------------------------------------
(* WMSReader *)

\* self.wmsParams['format']
WmsFormat == "image/jpeg"

\* What the service does with the request: refuse the connection, or answer
\* with a content type and a body whose read succeeds or breaks.
WmsResponses ==
    { [ opens |-> o, typeheader |-> h, reads |-> b ] :
        o \in BOOLEAN, h \in { "image/jpeg", "text/xml" }, b \in BOOLEAN }

wms_tile(c, resp) ==
    \* f = urllib.urlopen(url) raises IOError
    IF ~resp.opens THEN Result("ExtractionError", None, con, PriorBytes)
    \* assert header == self.wmsParams['format']
    ELSE IF resp.typeheader # WmsFormat
         THEN Result("ExtractionError", None, con, PriorBytes)
    \* open(output, 'wb') has emptied the file when f.read() raises IOError
    ELSE IF ~resp.reads THEN Result("ExtractionError", None, con, << >>)
    ELSE Result("ok", None, con, RemoteTile(c))

WMSReaderInit ==
    /\ reader = "WMSReader"
    /\ tilesize \in { ReaderInit(a) : a \in TileSizeArgs }
    /\ tiles_url = << >>
    /\ DOWNLOAD_RETRIES = 1
    /\ store = "none"
    /\ tiles = {}
    /\ grids = {}
    /\ grid_data = << >>
    /\ con = FALSE
    /\ InitCall

WMSTile ==
    /\ reader = "WMSReader"
    /\ \E c \in RemoteAddresses, resp \in WmsResponses :
         Do(Call("tile", c.z, c.x, c.y, ""), wms_tile(c, resp))

-----------------------------------------------------------------------------
(* The archive reader with all its methods *)

InitArchive ==
    \/ InitBadArchive
    \/ InitGridArchive
    \/ InitTileArchive /\ tilesize = DEFAULT_TILE_SIZE

NextArchive ==
    \/ Metadata
    \/ ZoomLevelsCall
    \/ MBTile
    \/ Grid
    \/ FindCoverage

SpecArchive == InitArchive /\ [][NextArchive]_vars

(* The three tile sources and their tile() *)

Init == InitBadArchive \/ InitTileArchive \/ TileDownloaderInit \/ WMSReaderInit

Next ==
    \/ MBTile
    \/ DownloadBegin
    \/ RetrieveDone
    \/ RetrieveRefused
    \/ RetrieveInterrupted
    \/ RetriesExhausted
    \/ WMSTile

Spec == Init /\ [][Next]_vars

-----------------------------------------------------------------------------
(* The claims *)

Finished(op) == pc = "idle" /\ call.op = op /\ outcome # "none"

\* stored_row = (2^zoom - 1) - requested_row
StoredRow(z, y) == (Pow2(z) - 1) - y

\* The tile a call of tile() is to deliver.
CompleteTile ==
    IF reader = "MBTilesReader"
    THEN << call.z, call.x, StoredRow(call.z, call.y) >>
    ELSE [ i \in 1 .. TileLen |-> call.x + call.y + i ]

\* C1: a call of tile() of any tile source that ends in a failure leaves the
\* output file as it was before the call, and a call that returns leaves the
\* complete tile in it.
C1_AllOrNothing ==
    Finished("tile") =>
        IF outcome = "ok" THEN sink = CompleteTile ELSE sink = PriorBytes

Recognized == { "z", "x", "y", "s", "size" }

ValidTemplate == \A i \in 1 .. Len(tiles_url) : tiles_url[i] \in Recognized

\* C2, in every state: with a valid template the call never makes more than
\* R = DOWNLOAD_RETRIES transfer attempts; it ends either with success, after
\* k failed attempts and one more with k <= R - 1, or with DownloadError
\* after exactly R attempts, all failed.
C2_Budget ==
    (reader = "TileDownloader" /\ ValidTemplate) =>
        /\ attempts <= DOWNLOAD_RETRIES
        /\ Finished("tile") =>
             \/ outcome = "ok" /\ attempts >= 1
                               /\ attempts - 1 = DOWNLOAD_RETRIES - r
             \/ outcome = "DownloadError" /\ attempts = DOWNLOAD_RETRIES
                                          /\ r = 0

\* C2: TileDownloader.tile with retry budget R and a valid template makes at
\* most R transfer attempts, returns after k + 1 attempts when the first
\* k <= R - 1 fail and the next succeeds, raises DownloadError after exactly
\* R attempts when R fail, and always ends in one of the two.
C2_RetryBoundary == [] C2_Budget /\ ((pc = "retry") ~> (pc = "idle"))

\* R - 1 failed attempts and then a success, with R >= 2.
C2_Witness ==
    /\ ValidTemplate /\ Len(tiles_url) > 0
    /\ Finished("tile") /\ outcome = "ok"
    /\ DOWNLOAD_RETRIES >= 2
    /\ attempts = DOWNLOAD_RETRIES

\* C3: with a template that holds a placeholder other than z, x, y, s and
\* size, the call fails with DownloadError at once, no transfer is attempted
\* and the loop is not entered; only the five names are ever substituted.
C3_UnknownPlaceholder ==
    (reader = "TileDownloader" /\ call.op = "tile") =>
        /\ ~ValidTemplate =>
             pc = "idle" /\ outcome = "DownloadError" /\ attempts = 0
        /\ \A i \in 1 .. Len(url) : url[i].field \in Recognized

TilesAt(zoom) == { t \in tiles : t.zoom_level = zoom }

\* C4: find_coverage(zoom) on a valid archive with no tile at that zoom
\* fails with ExtractionError and with no other error.
C4_NoTilesAtZoom ==
    (Finished("find_coverage") /\ store = "valid" /\ TilesAt(call.z) = {}) =>
        outcome = "ExtractionError"

QueryOps == { "metadata", "zoomlevels", "tile", "grid", "find_coverage" }

\* C5: the constructor does not touch the store, and the first operation on
\* a file that cannot be opened or is no archive fails with
\* InvalidFormatError and with no other error.
C5_TypedOpenFailure ==
    /\ (reader = "MBTilesReader" /\ call = NoCall) => ~con
    /\ (reader = "MBTilesReader" /\ call.op \in QueryOps /\ store # "valid")
          => outcome = "InvalidFormatError"

GridsAt(z, x, row) ==
    { g \in grids : g.zoom_level = z /\ g.tile_column = x /\ g.tile_row = row }

GridDataAt(z, x, row) ==
    { i \in 1 .. Len(grid_data) :
        /\ grid_data[i].zoom_level = z
        /\ grid_data[i].tile_column = x
        /\ grid_data[i].tile_row = row }

\* C6: grid(z, x, y) fails with ExtractionError whenever grids has no record
\* at (z, x, (2^z - 1) - y), whatever grid_data holds.
C6_MissingGridHeader ==
    ( /\ Finished("grid") /\ store = "valid"
      /\ GridsAt(call.z, call.x, StoredRow(call.z, call.y)) = {} )
        => outcome = "ExtractionError"

\* grid_data has rows at the coordinate and grids has none.
C6_Witness ==
    /\ Finished("grid") /\ store = "valid"
    /\ GridsAt(call.z, call.x, StoredRow(call.z, call.y)) = {}
    /\ GridDataAt(call.z, call.x, StoredRow(call.z, call.y)) # {}
    /\ outcome = "ExtractionError"

\* C7: when grids has a record at the converted coordinate, the keys of the
\* data map of the document grid() returns are exactly the key_name values
\* of the grid_data rows at that coordinate, each key with the fragment of a
\* row of that key; other rows and data held in the grids record add nothing.
C7_GridAssembly ==
    ( /\ Finished("grid") /\ store = "valid"
      /\ GridsAt(call.z, call.x, StoredRow(call.z, call.y)) # {} )
        => /\ outcome = "ok"
           /\ LET rows == GridDataAt(call.z, call.x, StoredRow(call.z, call.y))
                  data == ret.json.text_of.data
              IN  /\ DOMAIN data = { grid_data[i].key_name : i \in rows }
                  /\ \A k \in DOMAIN data :
                       \E i \in rows :
                          /\ grid_data[i].key_name = k
                          /\ data[k] = grid_data[i].key_json.text_of

\* The grids record holds stale data, one row of grid_data is at the
\* coordinate and another, of another key, is elsewhere.
C7_Witness ==
    /\ Finished("grid") /\ outcome = "ok"
    /\ \E g \in GridsAt(call.z, call.x, StoredRow(call.z, call.y)) :
          "data" \in DOMAIN g.grid.deflated.text_of
    /\ Cardinality(GridDataAt(call.z, call.x, StoredRow(call.z, call.y))) = 1
    /\ \E i, j \in 1 .. Len(grid_data) :
          /\ grid_data[i].tile_row = StoredRow(call.z, call.y)
          /\ grid_data[j].tile_row # StoredRow(call.z, call.y)
          /\ grid_data[i].key_name # grid_data[j].key_name

\* C8: a tile stored under (z, x, stored_row) is written verbatim to the
\* sink by tile(z, x, (2^z - 1) - stored_row) and by no other row, and a
\* request whose converted key is absent yields ExtractionError.
C8_RoundTrip ==
    (reader = "MBTilesReader" /\ Finished("tile") /\ store = "valid") =>
        LET hit == { t \in tiles : /\ t.zoom_level = call.z
                                   /\ t.tile_column = call.x
                                   /\ t.tile_row = StoredRow(call.z, call.y) }
        IN  IF hit = {} THEN outcome = "ExtractionError"
            ELSE outcome = "ok" /\ \E t \in hit : sink = t.tile_data

\* The (column, row) pairs stored at a zoom, and their order.
PairsAt(zoom) == { << t.tile_column, t.tile_row >> : t \in TilesAt(zoom) }

Lex(p, q) == p[1] < q[1] \/ (p[1] = q[1] /\ p[2] < q[2])

FirstPair(P) == CHOOSE p \in P : \A q \in P \ {p} : Lex(p, q)

\* The longest prefix of the ordered pairs in which every pair's column
\* exceeds the column of the pair before it by at most 1.
Run(P) ==
    { p \in P :
        \A q \in P :
           (q # FirstPair(P) /\ (q = p \/ Lex(q, p))) =>
               \E b \in P : Lex(b, q) /\ q[1] - b[1] <= 1
                            /\ \A m \in P : ~(Lex(b, m) /\ Lex(m, q)) }

LastPair(R) == CHOOSE p \in R : \A q \in R \ {p} : Lex(q, p)

C10_BoundingBox ==
    (Finished("find_coverage") /\ outcome = "ok") =>
        LET e == ret.extent
        IN  /\ e[1] <= e[3]
            /\ e[2] <= e[4]
            /\ \A p \in Run(PairsAt(call.z)) :
                  e[1] <= p[1] /\ p[1] <= e[3] /\ e[2] <= p[2] /\ p[2] <= e[4]

=============================================================================
